---- MODULE Spec2Model ----
(***************************************************************************)
(* A model of the three scrapers of the repository:                        *)
(*   src/languages/scrape.py  the language-scoped repository scraper       *)
(*   src/repos/popular.py     the per-blockchain repository scraper        *)
(*   src/repos/get_data.py    the DeFi protocol listing exporter           *)
(* The remote endpoints are the environment: every response is an input    *)
(* drawn from a small set.                                                  *)
(***************************************************************************)
EXTENDS Integers, Sequences, FiniteSets, TLC

\* ------------------------------------------------------------------ bounds
\* Number of search queries of one run (the code builds 19 and 4).
NumQueries == 2
\* Largest number of items in one search response.
MaxItems == 2
\* Largest number of entries in the protocol listing.
MaxEntries == 3

\* ------------------------------------------------------- program constants
\* per_page=100 of the contributors URL.
PerPage == 100

\* ------------------------------------------------------------ value domains
Variants == {"language", "popular"}
RepoIds == {1, 2}
StarValues == {0, 1}
ForkValues == {0, 1}
\* Contributor counts a repository may have in an aggregator run.
AggTotals == {0, 1}
\* Contributor counts a repository may have when the collector runs alone.
Totals == {0, 1, 37, 100, 137, 200, 237, 300}

\* Python's None / a present value.
None == <<>>
Some(x) == <<x>>

VARIABLES
    variant,             \* which scraper runs
    min_stars,           \* --min-stars
    min_forks,           \* --min-forks
    fetch_contributors,  \* --contributors
    pc,                  \* position of the run
    qi,                  \* index of the current query in queries
    k,                   \* items of the current response already iterated
    all_repos,           \* the dict id -> record, in insertion order
    all_contributors,    \* popular.py: flattened contributor list
    cur,                 \* the item whose contributors are being collected
    result,              \* the list the aggregator returns
    json_out,            \* the JSON document save_results writes
    totals,              \* contributor counts the endpoint may serve
    total,               \* contributors endpoint: size of the listing of repo
    page,                \* get_all_contributors: page
    contributors,        \* get_all_contributors: contributors
    resp,                \* get_all_contributors: the response just received
    ret,                 \* get_all_contributors: the returned tuple
    log,                 \* history: the page requests of this collection
    seen,                \* history: first occurrence of each id, in order
    seenPass,            \* history: first occurrence meeting the thresholds
    conflicting,         \* history: ids returned again with other counts
    fetches,             \* history: id -> number of collector invocations
    issued,              \* history: query index -> outcomes of its search requests
    honoured,            \* history: every item returned met the thresholds
    paused,              \* history: time.sleep(2) ran since the last search request
    listing,             \* get_data: the protocol listing returned
    csv                  \* get_data: the CSV file written

vars == <<variant, min_stars, min_forks, fetch_contributors, pc, qi, k,
          all_repos, all_contributors, cur, result, json_out, totals, total,
          page, contributors, resp, ret, log, seen, seenPass, conflicting, fetches,
          issued, honoured, paused, listing, csv>>

aggVars == <<qi, k, all_repos, all_contributors, cur, result, json_out,
             seen, seenPass, conflicting, fetches, issued, honoured, paused>>
colVars == <<total, page, contributors, resp, ret, log>>
cfgVars == <<variant, min_stars, min_forks, fetch_contributors, totals>>
csvVars == <<listing, csv>>

\* ------------------------------------------------------------- sequences
RECURSIVE Concat(_)
Concat(ss) == IF ss = <<>> THEN <<>> ELSE Head(ss) \o Concat(Tail(ss))

Range(s) == {s[i] : i \in 1..Len(s)}

Min(a, b) == IF a < b THEN a ELSE b

\* ----------------------------------------------- the contributors endpoint
\* Entry n of a repository's contributor listing, as the API returns it.
\* Every third entry is an anonymous one: it carries no login and no html_url.
Entry(n) ==
    IF n % 3 = 0
    THEN [contributions |-> n, type |-> "Anonymous", name |-> "n" \o ToString(n)]
    ELSE [login |-> "u" \o ToString(n), contributions |-> n,
          html_url |-> "https://github.com/u" \o ToString(n), type |-> "User"]

\* Number of non-empty pages of a listing of t contributors.
NPages(t) == (t + PerPage - 1) \div PerPage

\* The entries of page p of a listing of t contributors.
PageData(t, p) ==
    [i \in 1..(IF p > NPages(t) THEN 0 ELSE Min(PerPage, t - (p - 1) * PerPage))
        |-> Entry((p - 1) * PerPage + i)]

\* The mapping d without the field key: a JSON object that lacks it.
Without(d, key) == [f \in DOMAIN d \ {key} |-> d[f]]

\* A page whose last entry lacks the contribution count.
WithoutCount(data) ==
    [i \in 1..Len(data) |->
        IF i = Len(data) THEN Without(data[i], "contributions") ELSE data[i]]

\* The model records at most this many requests of one collection; a
\* collection that asks for more keeps running with the record unchanged.
LogCap(t) == NPages(t) + 1


\* ------------------------------------------------- get_all_contributors
\* dict.get(key, default)
Get(d, key, default) == IF key \in DOMAIN d THEN d[key] ELSE default

\* The record built from one entry c of a page.
ContributorRecord(v, c, repo_name) ==
    IF v = "language"
    THEN [username |-> Get(c, "login", "anonymous"),
          contributions |-> c.contributions,
          profile |-> Get(c, "html_url", ""),
          type |-> Get(c, "type", "Anonymous")]
    ELSE [username |-> Get(c, "login", "anonymous"),
          contributions |-> c.contributions,
          profile |-> Get(c, "html_url", ""),
          type |-> Get(c, "type", "Anonymous"),
          repo |-> repo_name]

\* contributors.extend([... for c in data])
Extend(v, acc, data, repo_name) ==
    acc \o [i \in 1..Len(data) |-> ContributorRecord(v, data[i], repo_name)]

\* The page the next iteration of the loop asks for: scrape.py advances it,
\* popular.py has no such statement.
NextPage(v, p) == IF v = "language" THEN p + 1 ELSE p

\* No response at hand.
NoResp == [status |-> "none", data |-> <<>>, link |-> FALSE, logged |-> FALSE]

\* requests.get(url) for the current page: the response arrives, or the
\* request raises.
CollectRequest ==
    /\ pc = "collect"
    /\ \E status \in {"ok", "error"}, link \in BOOLEAN :
          /\ status = "error" => ~link
          /\ resp' = [status |-> status,
                      data |-> IF status = "ok" THEN PageData(total, page) ELSE <<>>,
                      link |-> link,
                      logged |-> Len(log) < LogCap(total)]
          /\ log' = IF Len(log) < LogCap(total)
                    THEN Append(log, [page |-> page, status |-> status, link |-> link])
                    ELSE log
    /\ pc' = "page"
    /\ UNCHANGED <<total, page, contributors, ret>>
    /\ UNCHANGED <<aggVars, cfgVars, csvVars>>

\* requests.get(url) for the current page answers with a non-empty page one
\* of whose entries lacks the contribution count.
CollectRequestMalformed ==
    /\ pc = "collect"
    /\ PageData(total, page) # <<>>
    /\ resp' = [status |-> "malformed",
                data |-> WithoutCount(PageData(total, page)),
                link |-> FALSE,
                logged |-> Len(log) < LogCap(total)]
    /\ log' = IF Len(log) < LogCap(total)
              THEN Append(log, [page |-> page, status |-> "malformed",
                                link |-> FALSE])
              ELSE log
    /\ pc' = "page"
    /\ UNCHANGED <<total, page, contributors, ret>>
    /\ UNCHANGED <<aggVars, cfgVars, csvVars>>

\* c['contributions'] raises KeyError inside the list comprehension, before
\* extend is called.  KeyError is no requests.RequestException: no except
\* clause of the collector, of the aggregator or of main catches it, and the
\* interpreter ends the run with a traceback.
CollectCrash ==
    /\ pc = "page"
    /\ resp.status = "malformed"
    /\ \E i \in 1..Len(resp.data) : "contributions" \notin DOMAIN resp.data[i]
    /\ pc' = "crashed"
    /\ UNCHANGED <<total, page, contributors, resp, ret, log>>
    /\ UNCHANGED <<aggVars, cfgVars, csvVars>>

\* except requests.RequestException: the loop ends, completeness is false.
CollectFailed ==
    /\ pc = "page"
    /\ resp.status = "error"
    /\ ret' = <<contributors, FALSE>>
    /\ pc' = "collected"
    /\ resp' = NoResp
    /\ UNCHANGED <<total, page, contributors, log>>
    /\ UNCHANGED <<aggVars, cfgVars, csvVars>>

\* if not data: break
CollectEmpty ==
    /\ pc = "page"
    /\ resp.status = "ok"
    /\ resp.data = <<>>
    /\ ret' = <<contributors, TRUE>>
    /\ pc' = "collected"
    /\ resp' = NoResp
    /\ UNCHANGED <<total, page, contributors, log>>
    /\ UNCHANGED <<aggVars, cfgVars, csvVars>>

\* A non-empty page: its records are appended; without a Link header the
\* loop ends, with one it goes round again.
CollectPage ==
    /\ pc = "page"
    /\ resp.status = "ok"
    /\ resp.data # <<>>
    /\ LET acc == IF resp.logged
                  THEN Extend(variant, contributors, resp.data, cur[1].full_name)
                  ELSE contributors
       IN /\ contributors' = acc
          /\ IF ~resp.link
             THEN /\ ret' = <<acc, TRUE>>
                  /\ pc' = "collected"
                  /\ page' = page
             ELSE /\ page' = NextPage(variant, page)
                  /\ pc' = "collect"
                  /\ ret' = ret
    /\ resp' = NoResp
    /\ UNCHANGED <<total, log>>
    /\ UNCHANGED <<aggVars, cfgVars, csvVars>>


\* ------------------------------------------------------ the search endpoint
\* An item of a search response.  Only id, stars and forks vary; the other
\* fields are fixed by the id.  The repository with id 1 has no description.
Item(id, s, f) ==
    [id |-> id, full_name |-> "owner/repo" \o ToString(id),
     stargazers_count |-> s, forks_count |-> f,
     updated_at |-> "2024-01-01T00:00:00Z",
     description |-> IF id = 1 THEN None ELSE Some("text"),
     topics |-> <<"blockchain">>,
     html_url |-> "https://github.com/owner/repo" \o ToString(id),
     language |-> "Rust"]

Items == {Item(id, s, f) : id \in RepoIds, s \in StarValues, f \in ForkValues}

\* ------------------------------------------------------------ the aggregator
\* repo["description"] or ""
OrEmpty(d) == IF d = None THEN "" ELSE d[1]

\* LanguageRepo(...) / BlockchainRepo(...)
RepoRecord(v, repo, contribs, fetched) ==
    IF v = "language"
    THEN [name |-> repo.full_name, stars |-> repo.stargazers_count,
          forks |-> repo.forks_count, last_updated |-> repo.updated_at,
          description |-> OrEmpty(repo.description), topics |-> repo.topics,
          url |-> repo.html_url, language |-> repo.language,
          contributors |-> contribs, all_contributors_fetched |-> fetched]
    ELSE [name |-> repo.full_name, stars |-> repo.stargazers_count,
          forks |-> repo.forks_count, last_updated |-> repo.updated_at,
          description |-> OrEmpty(repo.description), topics |-> repo.topics,
          url |-> repo.html_url,
          contributors |-> contribs, all_contributors_fetched |-> fetched]

\* The dict all_repos is a sequence of entries in insertion order.  An entry
\* holds the key, the record and, as history, the item it was built from.
Keys(d) == {d[i].key : i \in 1..Len(d)}

\* A key that is not the identifier alone.
ItemKeyWithStars(repo) == <<repo.id, repo.stargazers_count>>

\* The key an item is filed under: repo["id"].
ItemKey(repo) == repo.id

\* all_repos[key] = record: a new key is appended, a present key keeps its
\* place and takes the new record.
Insert(d, repo, rec) ==
    LET e == [key |-> ItemKey(repo), src |-> repo, rec |-> rec]
    IN IF e.key \in Keys(d)
       THEN [i \in 1..Len(d) |-> IF d[i].key = e.key THEN e ELSE d[i]]
       ELSE Append(d, e)

\* The thresholds as stated by the run's arguments.
MeetsThresholds(repo) ==
    repo.stargazers_count >= min_stars /\ repo.forks_count >= min_forks

\* The condition without the test of the key.
AcceptsAnyKey(v, repo, d) ==
    IF v = "language"
    THEN /\ repo.stargazers_count >= min_stars
         /\ repo.forks_count >= min_forks
    ELSE TRUE

\* The condition without the test of the forks.
AcceptsAnyForks(v, repo, d) ==
    IF v = "language"
    THEN /\ repo.stargazers_count >= min_stars
         /\ ItemKey(repo) \notin Keys(d)
    ELSE ItemKey(repo) \notin Keys(d)

\* The condition under which an item becomes a record: scrape.py checks the
\* thresholds and the key, popular.py (which sends the thresholds to the
\* endpoint inside the query string) checks the key alone.
Accepts(v, repo, d) ==
    IF v = "language"
    THEN /\ repo.stargazers_count >= min_stars
         /\ repo.forks_count >= min_forks
         /\ ItemKey(repo) \notin Keys(d)
    ELSE ItemKey(repo) \notin Keys(d)

\* History kept beside the run, for the properties.
Ids(s) == {s[i].id : i \in 1..Len(s)}

Observe(repo) ==
    /\ seen' = IF repo.id \in Ids(seen) THEN seen ELSE Append(seen, repo)
    /\ seenPass' = IF repo.id \notin Ids(seenPass) /\ MeetsThresholds(repo)
                   THEN Append(seenPass, repo) ELSE seenPass
    /\ conflicting' = IF \E i \in 1..Len(seen) :
                             seen[i].id = repo.id /\ seen[i] # repo
                      THEN conflicting \cup {repo.id} ELSE conflicting
    /\ honoured' = (honoured /\ MeetsThresholds(repo))


\* x placed behind the entries of the descending sequence t that have at
\* least as many stars.
InsertByStars(x, t) ==
    LET n == Cardinality({i \in 1..Len(t) : t[i].rec.stars >= x.rec.stars})
    IN SubSeq(t, 1, n) \o <<x>> \o SubSeq(t, n + 1, Len(t))

\* A descending sort that puts a later entry before its equals.
RECURSIVE SortedTiesReversed(_)
SortedTiesReversed(d) ==
    IF d = <<>> THEN <<>>
    ELSE LET x == d[Len(d)]
             t == SortedTiesReversed(SubSeq(d, 1, Len(d) - 1))
             n == Cardinality({i \in 1..Len(t) : t[i].rec.stars > x.rec.stars})
         IN SubSeq(t, 1, n) \o <<x>> \o SubSeq(t, n + 1, Len(t))

\* sorted(all_repos.values(), key=lambda x: x.stars, reverse=True): Python's
\* sort is stable, also with reverse=True.
RECURSIVE SortedByStars(_)
SortedByStars(d) ==
    IF d = <<>> THEN <<>>
    ELSE InsertByStars(d[Len(d)], SortedByStars(SubSeq(d, 1, Len(d) - 1)))

\* A failure that ends the loop over the queries.
AbortAfterFailure(q) == NumQueries + 1

\* The query the loop goes on with after the except clause of query q.
AfterFailure(q) == q + 1

\* requests.get(url) of the search raises: the query is logged and skipped.
SearchFailed ==
    /\ pc = "query"
    /\ qi <= NumQueries
    /\ issued' = [issued EXCEPT ![qi] = Append(@, "error")]
    /\ qi' = AfterFailure(qi)
    /\ paused' = FALSE
    /\ UNCHANGED <<pc, k, all_repos, all_contributors, cur, result, json_out,
                   seen, seenPass, conflicting, fetches, honoured>>
    /\ UNCHANGED <<colVars, cfgVars, csvVars>>

\* The search request succeeds: the loop over its items starts.
SearchOk ==
    /\ pc = "query"
    /\ qi <= NumQueries
    /\ issued' = [issued EXCEPT ![qi] = Append(@, "ok")]
    /\ paused' = FALSE
    /\ pc' = "items"
    /\ k' = 0
    /\ UNCHANGED <<qi, all_repos, all_contributors, cur, result, json_out,
                   seen, seenPass, conflicting, fetches, honoured>>
    /\ UNCHANGED <<colVars, cfgVars, csvVars>>

\* The next item of the response fails the condition: nothing happens.
ItemSkip ==
    /\ pc = "items"
    /\ k < MaxItems
    /\ \E repo \in Items :
          /\ ~Accepts(variant, repo, all_repos)
          /\ Observe(repo)
    /\ k' = k + 1
    /\ UNCHANGED <<pc, qi, all_repos, all_contributors, cur, result, json_out,
                   fetches, issued, paused>>
    /\ UNCHANGED <<colVars, cfgVars, csvVars>>

\* The next item passes and no contributors are wanted: it is recorded.
ItemAdd ==
    /\ pc = "items"
    /\ k < MaxItems
    /\ ~fetch_contributors
    /\ \E repo \in Items :
          /\ Accepts(variant, repo, all_repos)
          /\ Observe(repo)
          /\ all_repos' = Insert(all_repos, repo,
                                  RepoRecord(variant, repo, None, FALSE))
    /\ k' = k + 1
    /\ UNCHANGED <<pc, qi, all_contributors, cur, result, json_out,
                   fetches, issued, paused>>
    /\ UNCHANGED <<colVars, cfgVars, csvVars>>

\* The next item passes and contributors are wanted: get_all_contributors
\* is called for it.
ItemCollect ==
    /\ pc = "items"
    /\ k < MaxItems
    /\ fetch_contributors
    /\ \E repo \in Items :
          /\ Accepts(variant, repo, all_repos)
          /\ Observe(repo)
          /\ cur' = Some(repo)
          /\ fetches' = [fetches EXCEPT ![repo.id] = @ + 1]
    /\ \E t \in totals : total' = t
    /\ contributors' = <<>>
    /\ page' = 1
    /\ log' = <<>>
    /\ pc' = "collect"
    /\ k' = k + 1
    /\ UNCHANGED <<qi, all_repos, all_contributors, result, json_out, issued,
                   paused, resp, ret>>
    /\ UNCHANGED <<cfgVars, csvVars>>

\* The next item lacks full_name and passes the condition (which reads the
\* id and, in scrape.py, the counts): repo["full_name"] raises KeyError, in
\* the call of get_all_contributors when contributors are wanted and in the
\* construction of the record otherwise.  Nothing catches it and the run
\* ends.  (An item that does not pass is skipped without full_name being
\* read: that is ItemSkip.)
ItemMalformed ==
    /\ pc = "items"
    /\ k < MaxItems
    /\ \E repo \in Items :
          LET bad == Without(repo, "full_name")
          IN /\ Accepts(variant, bad, all_repos)
             /\ "full_name" \notin DOMAIN bad
    /\ pc' = "crashed"
    /\ UNCHANGED <<qi, k, all_repos, all_contributors, cur, result, json_out,
                   seen, seenPass, conflicting, fetches, issued, honoured,
                   paused>>
    /\ UNCHANGED <<colVars, cfgVars, csvVars>>

\* get_all_contributors has returned: the record is stored with its result.
ItemStore ==
    /\ pc = "collected"
    /\ all_repos' = Insert(all_repos, cur[1],
                            RepoRecord(variant, cur[1], Some(ret[1]), ret[2]))
    /\ all_contributors' = IF variant = "popular" /\ ret[1] # <<>>
                           THEN all_contributors \o ret[1]
                           ELSE all_contributors
    /\ pc' = "items"
    /\ cur' = None
    /\ total' = 0
    /\ page' = 1
    /\ contributors' = <<>>
    /\ ret' = <<>>
    /\ log' = <<>>
    /\ UNCHANGED <<qi, k, result, json_out, seen, seenPass, conflicting,
                   fetches, issued, honoured, paused, resp>>
    /\ UNCHANGED <<cfgVars, csvVars>>

\* The items are exhausted: time.sleep(2), next query.
EndItems ==
    /\ pc = "items"
    /\ paused' = TRUE
    /\ pc' = "query"
    /\ qi' = qi + 1
    /\ k' = 0
    /\ UNCHANGED <<all_repos, all_contributors, cur, result, json_out,
                   seen, seenPass, conflicting, fetches, issued, honoured>>
    /\ UNCHANGED <<colVars, cfgVars, csvVars>>

\* The queries are exhausted: the sorted list is returned.
Return ==
    /\ pc = "query"
    /\ qi > NumQueries
    /\ result' = SortedByStars(all_repos)
    /\ pc' = "returned"
    /\ UNCHANGED <<qi, k, all_repos, all_contributors, cur, json_out,
                   seen, seenPass, conflicting, fetches, issued, honoured,
                   paused>>
    /\ UNCHANGED <<colVars, cfgVars, csvVars>>


\* ------------------------------------------------------------- save_results
\* One entry of the JSON document: scrape.py lists the fields it writes,
\* popular.py writes vars(repo).
JsonEntry(v, rec) ==
    IF v = "language"
    THEN [name |-> rec.name, stars |-> rec.stars, forks |-> rec.forks,
          last_updated |-> rec.last_updated, description |-> rec.description,
          topics |-> rec.topics, url |-> rec.url, language |-> rec.language,
          contributors |-> rec.contributors]
    ELSE rec

SaveResults ==
    /\ pc = "returned"
    /\ json_out' = [i \in 1..Len(result) |-> JsonEntry(variant, result[i].rec)]
    /\ pc' = "saved"
    /\ UNCHANGED <<qi, k, all_repos, all_contributors, cur, result,
                   seen, seenPass, conflicting, fetches, issued, honoured,
                   paused>>
    /\ UNCHANGED <<colVars, cfgVars, csvVars>>

\* ------------------------------------------------------------ specifications
InitLocals ==
    /\ qi = 1
    /\ k = 0
    /\ all_repos = <<>>
    /\ all_contributors = <<>>
    /\ result = <<>>
    /\ json_out = <<>>
    /\ total = 0
    /\ page = 1
    /\ contributors = <<>>
    /\ resp = NoResp
    /\ ret = <<>>
    /\ log = <<>>
    /\ seen = <<>>
    /\ seenPass = <<>>
    /\ conflicting = {}
    /\ fetches = [id \in RepoIds |-> 0]
    /\ issued = [q \in 1..NumQueries |-> <<>>]
    /\ honoured = TRUE
    /\ paused = FALSE
    /\ listing = <<>>
    /\ csv = <<>>

\* A run of main(): the arguments are parsed, the aggregator is about to
\* issue its first query.
Init ==
    /\ variant \in Variants
    /\ min_stars \in StarValues
    /\ min_forks \in ForkValues
    /\ fetch_contributors \in BOOLEAN
    /\ totals = AggTotals
    /\ pc = "query"
    /\ cur = None
    /\ InitLocals

Next ==
    \/ SearchFailed
    \/ SearchOk
    \/ ItemSkip
    \/ ItemAdd
    \/ ItemCollect
    \/ ItemMalformed
    \/ CollectRequest
    \/ CollectRequestMalformed
    \/ CollectCrash
    \/ CollectFailed
    \/ CollectEmpty
    \/ CollectPage
    \/ ItemStore
    \/ EndItems
    \/ Return
    \/ SaveResults

Spec == Init /\ [][Next]_vars


\* get_all_contributors called on its own, for one repository whose listing
\* holds any of the counts of Totals.
InitCollector ==
    /\ variant \in Variants
    /\ min_stars = 0
    /\ min_forks = 0
    /\ fetch_contributors = TRUE
    /\ totals = Totals
    /\ pc = "collect"
    /\ cur = Some(Item(1, 0, 0))
    /\ qi = 1
    /\ k = 0
    /\ all_repos = <<>>
    /\ all_contributors = <<>>
    /\ result = <<>>
    /\ json_out = <<>>
    /\ total \in Totals
    /\ page = 1
    /\ contributors = <<>>
    /\ resp = NoResp
    /\ ret = <<>>
    /\ log = <<>>
    /\ seen = <<>>
    /\ seenPass = <<>>
    /\ conflicting = {}
    /\ fetches = [id \in RepoIds |-> 0]
    /\ issued = [q \in 1..NumQueries |-> <<>>]
    /\ honoured = TRUE
    /\ paused = FALSE
    /\ listing = <<>>
    /\ csv = <<>>

NextCollector ==
    \/ CollectRequest
    \/ CollectFailed
    \/ CollectEmpty
    \/ CollectPage

SpecCollector == InitCollector /\ [][NextCollector]_vars

\* The interpreter runs the loop on: a step that can be taken is taken.
FairCollector == SpecCollector /\ WF_vars(NextCollector)


\* ----------------------------------------------------------------- get_data
\* The field names the listing may use, each with the code points of its
\* characters: Python compares strings code point by code point.
CodePoints ==
    [category  |-> <<99, 97, 116, 101, 103, 111, 114, 121>>,
     chainTvls |-> <<99, 104, 97, 105, 110, 84, 118, 108, 115>>,
     chains    |-> <<99, 104, 97, 105, 110, 115>>,
     tvl       |-> <<116, 118, 108>>]

FieldNames == DOMAIN CodePoints
OtherFields == FieldNames \ {"chains"}
ChainLists == {<<"Ethereum">>, <<"Ethereum", "Solana">>}

\* a < b for two sequences of code points.
RECURSIVE SeqLess(_, _)
SeqLess(a, b) ==
    IF b = <<>> THEN FALSE
    ELSE IF a = <<>> THEN TRUE
    ELSE IF Head(a) # Head(b) THEN Head(a) < Head(b)
    ELSE SeqLess(Tail(a), Tail(b))

\* a < b for two field names, as Python's str compares.
StrLess(a, b) == SeqLess(CodePoints[a], CodePoints[b])

\* One protocol of the listing: a dict over some of the fields; "chains",
\* when present, is a list of chain names.
Protocol(ks, ch) ==
    [key \in ks \cup (IF ch = None THEN {} ELSE {"chains"}) |->
        IF key = "chains" THEN ch[1] ELSE "v"]

Protocols ==
    {Protocol(ks, ch) : ks \in SUBSET OtherFields,
                        ch \in {None} \cup {Some(c) : c \in ChainLists}}

\* [protocol for protocol in data if "Solana" in protocol.get("chains", [])]
SolanaProtocols(data) ==
    SelectSeq(data, LAMBDA protocol : "Solana" \in Range(Get(protocol, "chains", <<>>)))

\* The union of the keys of the protocols of ps.
KeyUnion(ps) == UNION {DOMAIN ps[i] : i \in 1..Len(ps)}

\* sorted(list(fieldnames))
RECURSIVE Sorted(_)
Sorted(S) ==
    IF S = {} THEN <<>>
    ELSE LET m == CHOOSE x \in S : \A y \in S \ {x} : StrLess(x, y)
         IN <<m>> \o Sorted(S \ {m})

\* The field names computed from every protocol of the listing.
FieldNamesOfAll(data) == Sorted(KeyUnion(data))

\* The header of the CSV: the sorted keys of the protocols written.
FieldNamesOf(data) == Sorted(KeyUnion(SolanaProtocols(data)))

\* str() of a list of strings, as the csv writer renders it.
RECURSIVE Joined(_)
Joined(l) ==
    IF l = <<>> THEN ""
    ELSE "'" \o Head(l) \o "'" \o (IF Len(l) > 1 THEN ", " ELSE "") \o Joined(Tail(l))

\* The text of one cell.
CellText(key, value) == IF key = "chains" THEN "[" \o Joined(value) \o "]" ELSE value

\* csv.DictWriter.writerow: a field the row lacks is written as restval "".
Row(fieldnames, protocol) ==
    [c \in 1..Len(fieldnames) |->
        IF fieldnames[c] \in DOMAIN protocol
        THEN CellText(fieldnames[c], protocol[fieldnames[c]])
        ELSE ""]

\* get_data: the listing arrives, the CSV is written.
GetData ==
    /\ pc = "get_data"
    /\ \E n \in 0..MaxEntries : \E data \in [1..n -> Protocols] :
          /\ listing' = data
          /\ LET fieldnames == FieldNamesOf(data)
                 solana_protocols == SolanaProtocols(data)
             IN csv' = [header |-> fieldnames,
                        rows |-> [r \in 1..Len(solana_protocols) |->
                                    Row(fieldnames, solana_protocols[r])]]
    /\ pc' = "written"
    /\ UNCHANGED <<aggVars, colVars, cfgVars>>

InitCSV ==
    /\ variant = "popular"
    /\ min_stars = 0
    /\ min_forks = 0
    /\ fetch_contributors = FALSE
    /\ totals = {}
    /\ pc = "get_data"
    /\ cur = None
    /\ InitLocals

SpecCSV == InitCSV /\ [][GetData]_vars

\* ------------------------------------------------------------------ claims
Returned == pc \in {"returned", "saved"}

\* The place of the entry built from the repository id in the sequence s.
Place(s, id) == CHOOSE i \in 1..Len(s) : s[i].id = id

\* C1: the collection the aggregator returns holds no two records built
\* from items with the same source identifier, whatever the responses were
\* (conflicting items, failing queries).
C1_NoDuplicateIdentifiers ==
    Returned =>
        \A i, j \in 1..Len(result) :
            i # j => result[i].src.id # result[j].src.id

\* C1 witness: a run has returned a non-empty collection although an
\* identifier came back more than once and a query failed.
C1_Witness ==
    /\ pc = "returned"
    /\ result # <<>>
    /\ \E i \in 1..Len(result) : result[i].src.id \in conflicting
    /\ \E q \in 1..NumQueries : issued[q] = <<"error">>

\* C2: the returned collection is the inserted records ordered by stars
\* non-increasing, and two records with equal stars stand in the order in
\* which they were inserted, which is the order in which their items first
\* came up (query by query, item by item).
C2_SortedStable ==
    Returned =>
        /\ Len(result) = Len(all_repos)
        /\ Range(result) = Range(all_repos)
        /\ \A i, j \in 1..Len(result) :
              i < j =>
                /\ result[i].rec.stars >= result[j].rec.stars
                /\ result[i].rec.stars = result[j].rec.stars =>
                      /\ Place([n \in 1..Len(all_repos) |-> all_repos[n].src],
                               result[i].src.id)
                           < Place([n \in 1..Len(all_repos) |-> all_repos[n].src],
                                   result[j].src.id)
                      /\ Place(IF variant = "language" THEN seenPass ELSE seen,
                               result[i].src.id)
                           < Place(IF variant = "language" THEN seenPass ELSE seen,
                                   result[j].src.id)

\* C2 witness: two records with equal stars have been returned.
C2_Witness ==
    /\ pc = "returned"
    /\ Len(result) = 2
    /\ result[1].rec.stars = result[2].rec.stars


\* The records of pages 1..n of a listing of t contributors.
RecordsOfPages(v, t, n, repo_name) ==
    Extend(v, <<>>, Concat([p \in 1..n |-> PageData(t, p)]), repo_name)

\* Every request of the log succeeded and every non-empty page carried the
\* pagination marker.
CleanLog ==
    \A i \in 1..Len(log) :
        /\ log[i].status = "ok"
        /\ PageData(total, log[i].page) # <<>> => log[i].link

\* C3: against a listing whose pages 1..n are non-empty and carry the
\* pagination marker and whose page n+1 is empty, the collector asks for
\* pages 1, 2, ..., n+1 in that order and returns the records of pages 1..n,
\* each once, with completeness true.
C3_PagesInOrder ==
    CleanLog =>
        /\ \A i \in 1..Len(log) : log[i].page = i
        /\ pc = "collected" =>
              /\ Len(log) = NPages(total) + 1
              /\ ret = <<RecordsOfPages(variant, total, NPages(total),
                                        cur[1].full_name), TRUE>>

\* C4: when the request for page k fails, it is the last request of the
\* collection, the collector returns the records of pages 1..k-1 with
\* completeness false, and the aggregator stores the record with that list
\* and flag.
C4_PartialOnError ==
    [][(pc = "collected" /\ log # <<>> /\ log[Len(log)].status = "error") =>
         /\ \A i \in 1..(Len(log) - 1) : log[i].status = "ok"
         /\ ret = <<RecordsOfPages(variant, total, log[Len(log)].page - 1,
                                   cur[1].full_name), FALSE>>
         /\ all_repos' = Append(all_repos,
                [key |-> cur[1].id, src |-> cur[1],
                 rec |-> RepoRecord(variant, cur[1], Some(ret[1]), FALSE)])
      ]_vars

\* C5: a search request that fails changes no record and is followed by the
\* next query; when the run returns, every query has been requested exactly
\* once, the ones behind a failing query included.
C5_FailingQuerySkipped ==
    [][/\ (/\ pc = "query"
           /\ qi <= NumQueries
           /\ issued'[qi] = Append(issued[qi], "error"))
          => /\ all_repos' = all_repos
             /\ pc' = "query"
             /\ qi' = qi + 1
       /\ pc' = "returned" =>
             \A q \in 1..NumQueries : Len(issued'[q]) = 1
      ]_vars

\* C5 witness: the run has returned with records although its first query
\* failed.
C5_Witness ==
    /\ pc = "returned"
    /\ issued[1] = <<"error">>
    /\ result # <<>>


\* The first occurrence of the repository id in the history s.
FirstIn(s, id) == s[Place(s, id)]

\* Every entry of d was built from the occurrence of its identifier that
\* the history s holds, and carries that occurrence's fields.
BuiltFrom(d, s) ==
    \A i \in 1..Len(d) :
        /\ d[i].src.id \in Ids(s)
        /\ d[i].src = FirstIn(s, d[i].src.id)
        /\ d[i].rec = RepoRecord(variant, FirstIn(s, d[i].src.id),
                                 d[i].rec.contributors,
                                 d[i].rec.all_contributors_fetched)

\* C6, as stated: the record kept for an identifier is the one built from
\* its first occurrence, and no identifier has its contributors fetched
\* twice.
C6_FirstOccurrenceKept ==
    /\ BuiltFrom(all_repos, seen)
    /\ \A id \in RepoIds : fetches[id] <= 1

\* C6, amended: the record kept for an identifier is the one built from its
\* first occurrence that the variant accepts (scrape.py: the first one that
\* meets the thresholds; popular.py: the first one); no later step changes
\* an entry once it is stored, and no identifier has its contributors
\* fetched twice.
C6_FirstAcceptedKept ==
    [][/\ BuiltFrom(all_repos', IF variant = "language" THEN seenPass' ELSE seen')
       /\ Len(all_repos') >= Len(all_repos)
       /\ \A i \in 1..Len(all_repos) : all_repos'[i] = all_repos[i]
       /\ \A id \in RepoIds : fetches'[id] <= 1
      ]_vars

\* C6 witness: a run with contributor enrichment has returned a record of
\* an identifier that came back with other counts.
C6_Witness ==
    /\ pc = "returned"
    /\ fetch_contributors
    /\ \E i \in 1..Len(result) :
          /\ result[i].src.id \in conflicting
          /\ fetches[result[i].src.id] = 1

\* C7, as stated: in both variants every record meets both thresholds and
\* no item below a threshold has its contributors fetched.
C7_ThresholdsMet ==
    /\ \A i \in 1..Len(all_repos) :
          /\ all_repos[i].rec.stars >= min_stars
          /\ all_repos[i].rec.forks >= min_forks
    /\ cur # None => MeetsThresholds(cur[1])
    /\ Returned => \A i \in 1..Len(result) :
          /\ result[i].rec.stars >= min_stars
          /\ result[i].rec.forks >= min_forks

\* C7, amended: scrape.py checks the thresholds itself, so there the
\* property holds whatever the endpoint returns; popular.py only sends them
\* to the endpoint inside the query, so there it holds as long as the
\* endpoint has returned no item below them.
C7_ThresholdsMetWhereChecked ==
    (variant = "language" \/ honoured) => C7_ThresholdsMet

\* C7 witness: scrape.py has returned records, with contributors, although
\* the endpoint returned an item below the thresholds.
C7_Witness ==
    /\ variant = "language"
    /\ pc = "returned"
    /\ ~honoured
    /\ fetch_contributors
    /\ result # <<>>

\* C9: the JSON document holds one entry per returned record, in the same
\* order, and each entry carries every field of the record, the
\* completeness flag included.
C9_JsonFieldForField ==
    pc = "saved" =>
        /\ Len(json_out) = Len(result)
        /\ \A i \in 1..Len(result) :
              /\ DOMAIN json_out[i] = DOMAIN result[i].rec
              /\ \A f \in DOMAIN result[i].rec \cap DOMAIN json_out[i] :
                    json_out[i][f] = result[i].rec[f]

\* C10: the contributor collector eventually returns.
C10_CollectorReturns == <>(pc = "collected")


\* The protocols of the listing whose chains list holds the target chain.
Included ==
    SelectSeq(listing, LAMBDA e : "chains" \in DOMAIN e /\ "Solana" \in Range(e.chains))

\* C8: the header of the CSV is the sorted union of the keys of the
\* included protocols (a key of excluded protocols alone is not in it),
\* there is one row per included protocol, in the listing's order, and the
\* cell of a key the protocol lacks is empty.
C8_HeaderIsSortedUnion ==
    pc = "written" =>
        /\ Range(csv.header) = UNION {DOMAIN Included[i] : i \in 1..Len(Included)}
        /\ \A i, j \in 1..Len(csv.header) :
              i < j => StrLess(csv.header[i], csv.header[j])
        /\ Len(csv.rows) = Len(Included)
        /\ \A r \in 1..Len(csv.rows) :
              /\ Len(csv.rows[r]) = Len(csv.header)
              /\ \A c \in 1..Len(csv.header) :
                    IF csv.header[c] \in DOMAIN Included[r]
                    THEN csv.rows[r][c] # ""
                    ELSE csv.rows[r][c] = ""

\* C8 witness: two included protocols with different keys and an excluded
\* one with a key of its own have been written.
C8_Witness ==
    /\ pc = "written"
    /\ Len(csv.rows) = 2
    /\ \E c \in 1..Len(csv.header) : csv.rows[1][c] = "" /\ csv.rows[2][c] # ""
    /\ \E i \in 1..Len(listing) : DOMAIN listing[i] \ Range(csv.header) # {}
    /\ "chainTvls" \in Range(csv.header)

\* C11: a contributors page with an entry that lacks the contribution count
\* is handled as a failed request is (the collection stops and returns the
\* records accumulated so far with completeness false), and no malformed
\* entry or search item ends the run.
C11_MalformedHandledAsTransportError ==
    [][/\ (pc = "page" /\ resp.status = "malformed") =>
              (pc' = "collected" /\ ret' = <<contributors, FALSE>>)
       /\ pc' # "crashed"]_vars

\* C12: every search request but the first of a run is issued after the
\* inter-query pause, whether the query before it succeeded or failed.
C12_PauseBeforeEveryQuery ==
    [][(pc = "query" /\ qi > 1 /\ issued' # issued) => paused]_vars

====
